---- MODULE Spec2Model ----
(***************************************************************************)
(* Model of the program-page parser (src/parser/src/program_parser.py)     *)
(* and of its driver (src/parser/run.py).                                  *)
(*                                                                         *)
(* Conventions.  Python str fields whose characters never matter are TLA+  *)
(* strings ("" is the empty str).  Program names, which match_exams        *)
(* normalizes character by character, are sequences of one-character       *)
(* strings (<<>> is the empty str); Cyrillic letters are transliterated.   *)
(* An optional int (budget_places, paid_places) is NoneInt when it is      *)
(* None: the regexes only ever produce non-negative integers.              *)
(* The formatted duration "<y> <noun>" is the pair <<y, noun>>, and <<>>   *)
(* is the empty str.                                                       *)
(***************************************************************************)
EXTENDS Integers, Sequences, FiniteSets, TLC

VARIABLES
    pc,              \* position of the running operation
    rec,             \* the Program record being validated / returned by parse_page
    page,            \* the page handed to parse_page
    config,          \* the configuration handed to parse_page
    assigned,        \* the setattr calls of parse_page's section loop
    query,           \* the program name handed to match_exams
    ret,             \* what match_exams returned
    calls,           \* number of match_exams calls made so far
    minkrit_cache,   \* _minkrit_cache (program_parser.py:11)
    fetches,         \* number of download(MINKRIT_URL) calls made so far
    programs,        \* parse_all: programs, the configurations of the run
    idx,             \* parse_all: number of configurations processed
    results,         \* parse_all: results
    download_failed, \* parse_all: download_failed
    manifest,        \* parse_all: manifest
    report,          \* run.py: the values stat() printed
    workers          \* concurrent callers of match_exams: [pc, src, seen]

pageVars == <<page, config, assigned>>

matchVars == <<query, ret, calls>>

cacheVars == <<minkrit_cache, fetches>>

batchVars == <<programs, idx, results, download_failed, manifest, report>>

vars == <<pc, rec, pageVars, matchVars, cacheVars, batchVars, workers>>

----------------------------------------------------------------------------
(* Values                                                                  *)

NoneInt == -1

RECURSIVE SeqToSet(_)
SeqToSet(s) == IF s = <<>> THEN {} ELSE {Head(s)} \cup SeqToSet(Tail(s))

\* all sequences over S of length at most n
SeqsUpTo(S, n) == UNION {[1..k -> S] : k \in 0..n}

----------------------------------------------------------------------------
(* Program record and validate_program                                     *)

REQUIRED_FIELDS == <<"name", "faculty", "url", "duration", "form", "language">>

IMPORTANT_FIELDS == <<"budget_places", "exams", "description">>

StrFields == {"slug", "faculty", "category", "url", "campus", "form", "language",
              "description", "what_to_study", "advantages", "career",
              "admission_info"}

SeqFields == {"name", "codes", "duration", "exams", "specializations"}

IntFields == {"budget_places", "paid_places"}

\* Python truthiness of the value of field f ("if not val", "if getattr(r, f)")
Truthy(r, f) ==
    IF f \in StrFields THEN r[f] # ""
    ELSE IF f \in SeqFields THEN r[f] # <<>>
    ELSE r[f] # NoneInt /\ r[f] # 0

\* Program(): the dataclass defaults
Program == [slug |-> "", name |-> <<>>, faculty |-> "", codes |-> <<>>,
            category |-> "", url |-> "", campus |-> "", admission_year |-> 2025,
            budget_places |-> NoneInt, paid_places |-> NoneInt,
            duration |-> <<>>, form |-> "", language |-> "", exams |-> <<>>,
            description |-> "", what_to_study |-> "", advantages |-> "",
            career |-> "", admission_info |-> "", specializations |-> <<>>,
            status |-> "success", errors |-> <<>>, warnings |-> <<>>]

RECURSIVE Missing(_, _, _)
\* the tags appended, in field order, for the falsy fields of fields
Missing(r, fields, tag) ==
    IF fields = <<>> THEN <<>>
    ELSE (IF Truthy(r, Head(fields)) THEN <<>> ELSE << <<tag, Head(fields)>> >>)
         \o Missing(r, Tail(fields), tag)

\* a validator that forgets the last required field
validate_program_short(p) ==
    LET errors   == Missing(p, SubSeq(REQUIRED_FIELDS, 1, Len(REQUIRED_FIELDS) - 1),
                            "missing_required")
        warnings == Missing(p, IMPORTANT_FIELDS, "missing_important")
    IN [p EXCEPT !.status = IF errors # <<>> THEN "failed"
                            ELSE IF warnings # <<>> THEN "partial" ELSE "success",
                 !.errors = errors, !.warnings = warnings]

validate_program(p) ==
    LET errors   == Missing(p, REQUIRED_FIELDS, "missing_required")
        warnings == Missing(p, IMPORTANT_FIELDS, "missing_important")
    IN [p EXCEPT !.status = IF errors # <<>> THEN "failed"
                            ELSE IF warnings # <<>> THEN "partial" ELSE "success",
                 !.errors = errors, !.warnings = warnings]

----------------------------------------------------------------------------
(* Characters and normalize (match_exams, program_parser.py:51-52)         *)

UPPER == <<"A", "B", "C", "D", "E", "F", "G", "H", "I", "J", "K", "L", "M",
           "N", "O", "P", "Q", "R", "S", "T", "U", "V", "W", "X", "Y", "Z">>

LOWER == <<"a", "b", "c", "d", "e", "f", "g", "h", "i", "j", "k", "l", "m",
           "n", "o", "p", "q", "r", "s", "t", "u", "v", "w", "x", "y", "z">>

DIGITS == {"0", "1", "2", "3", "4", "5", "6", "7", "8", "9"}

\* str.lower() on one character
LowerChar(c) ==
    IF \E i \in 1..Len(UPPER) : UPPER[i] = c
    THEN LOWER[CHOOSE i \in 1..Len(UPPER) : UPPER[i] = c]
    ELSE c

\* the characters the pattern [^а-яёa-z0-9] leaves in place
Kept(c) == c \in SeqToSet(LOWER) \cup DIGITS

RECURSIVE normalize(_)
normalize(s) ==
    IF s = <<>> THEN <<>>
    ELSE LET c == LowerChar(Head(s))
         IN (IF Kept(c) THEN <<c>> ELSE <<>>) \o normalize(Tail(s))

\* Python's "a in b" on strings
In(a, b) == \E i \in 0..(Len(b) - Len(a)) : SubSeq(b, i + 1, i + Len(a)) = a

RECURSIVE Replace(_, _)
\* s.replace(sub, '')
Replace(s, sub) ==
    IF Len(s) < Len(sub) THEN s
    ELSE IF SubSeq(s, 1, Len(sub)) = sub
         THEN Replace(SubSeq(s, Len(sub) + 1, Len(s)), sub)
         ELSE <<Head(s)>> \o Replace(Tail(s), sub)

RECURSIVE Strip(_)
\* s.strip()
Strip(s) ==
    IF s = <<>> THEN s
    ELSE IF Head(s) = " " THEN Strip(Tail(s))
    ELSE IF s[Len(s)] = " " THEN Strip(SubSeq(s, 1, Len(s) - 1))
    ELSE s

RECURSIVE SplitFrom(_, _)
\* s.split(): the maximal runs of non-blank characters; cur is the run in progress
SplitFrom(s, cur) ==
    IF s = <<>> THEN (IF cur = <<>> THEN <<>> ELSE <<cur>>)
    ELSE IF Head(s) = " "
         THEN (IF cur = <<>> THEN <<>> ELSE <<cur>>) \o SplitFrom(Tail(s), <<>>)
         ELSE SplitFrom(Tail(s), Append(cur, Head(s)))

Split(s) == SplitFrom(s, <<>>)

\* the literals '(онлайн)' and '(реализуется на английском языке)', transliterated
\* and shortened
ONLINE == <<"(", "o", "n", "l", ")">>

IN_ENGLISH == <<"(", "e", "n", "g", ")">>

----------------------------------------------------------------------------
(* The exam directory: load_minkrit (program_parser.py:16-46)              *)

\* _minkrit_cache = None
Unbuilt == [built |-> FALSE, map |-> <<>>]

\* _minkrit_cache = d, a dict in insertion order: a sequence of [name, exams]
Built(d) == [built |-> TRUE, map |-> d]

HasKey(d, k) == \E i \in 1..Len(d) : d[i].name = k

KeyIdx(d, k) == CHOOSE i \in 1..Len(d) : d[i].name = k

\* d[k] = v: a new key goes last, an existing key keeps its place
DictSet(d, k, v) ==
    IF HasKey(d, k) THEN [d EXCEPT ![KeyIdx(d, k)].exams = v]
    ELSE Append(d, [name |-> k, exams |-> v])

\* d[k].append(e)
DictAppend(d, k, e) == [d EXCEPT ![KeyIdx(d, k)].exams = Append(@, e)]

\* one row of tables[1]: n cells; a 5-cell row reads cells 1, 2, 4 (name, subject,
\* score), a 3-cell row reads cells 0, 2 (subject, score).  A score cell is
\* [ok, val]: int() accepts it and yields val, or rejects it (ValueError).
RowStep(st, row) ==
    IF st.raised THEN st
    ELSE IF row.n = 5
    THEN LET name == Strip(Replace(Replace(row.name, ONLINE), IN_ENGLISH))
         IN IF ~row.score.ok THEN [st EXCEPT !.raised = TRUE, !.current = name]
            ELSE [st EXCEPT !.current = name,
                            !.programs = DictSet(@, name,
                                << [subject |-> row.subject, min_score |-> row.score.val] >>)]
    ELSE IF row.n = 3 /\ st.current # <<>>
    THEN IF ~row.score.ok THEN [st EXCEPT !.raised = TRUE]
         ELSE [st EXCEPT !.programs = DictAppend(@, st.current,
                              [subject |-> row.subject, min_score |-> row.score.val])]
    ELSE st

RECURSIVE RowLoop(_, _)
RowLoop(st, rows) ==
    IF rows = <<>> THEN st ELSE RowLoop(RowStep(st, Head(rows)), Tail(rows))

\* the loop of lines 32-43 over the rows of the second table
BuildPrograms(rows) ==
    RowLoop([programs |-> <<>>, current |-> <<>>, raised |-> FALSE], rows)

\* what a download of MINKRIT_URL can hand to load_minkrit
NoContent == [kind |-> "no_content", rows |-> <<>>]

FewTables == [kind |-> "few_tables", rows |-> <<>>]

Table(rows) == [kind |-> "table", rows |-> rows]

\* load_minkrit() with the cache as it stands, src being what the source yields if
\* it is asked: the cache afterwards, whether the source was fetched, whether the
\* call raised.  A raise happens before line 45 and leaves the cache as it was.
load_minkrit(cache, src) ==
    IF cache.built THEN [cache |-> cache, fetched |-> 0, raised |-> FALSE]
    ELSE IF src.kind # "table"
    THEN [cache |-> Built(<<>>), fetched |-> 1, raised |-> FALSE]
    ELSE LET st == BuildPrograms(src.rows)
         IN IF st.raised THEN [cache |-> cache, fetched |-> 1, raised |-> TRUE]
            ELSE [cache |-> Built(st.programs), fetched |-> 1, raised |-> FALSE]

----------------------------------------------------------------------------
(* match_exams (program_parser.py:48-68)                                   *)

NoExams == [some |-> FALSE, exams |-> <<>>]

Exams(e) == [some |-> TRUE, exams |-> e]

\* the test of lines 57 and 59 for one key
FirstLoopHit(mk_name, name_norm) ==
    \/ normalize(mk_name) = name_norm
    \/ In(name_norm, normalize(mk_name))
    \/ In(normalize(mk_name), name_norm)

RECURSIVE LongWords_from3(_)
\* the filter keeping the tokens of 3 characters too
LongWords_from3(ws) ==
    IF ws = <<>> THEN <<>>
    ELSE (IF Len(Head(ws)) >= 3 THEN <<Head(ws)>> ELSE <<>>) \o LongWords_from3(Tail(ws))

RECURSIVE LongWords(_)
\* [w for w in ws if len(w) > 3]
LongWords(ws) ==
    IF ws = <<>> THEN <<>>
    ELSE (IF Len(Head(ws)) > 3 THEN <<Head(ws)>> ELSE <<>>) \o LongWords(Tail(ws))

\* sum(1 for w in words if normalize(w) in mk_norm)
Overlap(words, mk_norm) ==
    Cardinality({i \in 1..Len(words) : In(normalize(words[i]), mk_norm)})

\* match_exams(program_name) over the mapping load_minkrit returned
match_exams(program_name, minkrit) ==
    LET name_norm == normalize(program_name)
        first     == {i \in 1..Len(minkrit) : FirstLoopHit(minkrit[i].name, name_norm)}
        words     == LongWords(Split(program_name))
        second    == {i \in 1..Len(minkrit) :
                          Overlap(words, normalize(minkrit[i].name)) >= 2}
        Min(S)    == CHOOSE i \in S : \A j \in S : i <= j
    IN IF first # {} THEN Exams(minkrit[Min(first)].exams)
       ELSE IF second # {} THEN Exams(minkrit[Min(second)].exams)
       ELSE NoExams

----------------------------------------------------------------------------
(* parse_page: the field extractors (program_parser.py:153-186)            *)
(*                                                                         *)
(* A page is what BeautifulSoup hands to the extractors after the          *)
(* boilerplate tags are removed:                                           *)
(*   text         the tokens of soup.get_text(' '): numbers and words      *)
(*   h1           whether the page has an h1                               *)
(*   h1sibs       the siblings after the h1: [tag, text, len]              *)
(*   h2s          the h2 headings: [title, content], title being the set   *)
(*                of lexicon and denylist phrases the lowercased title     *)
(*                contains, content [text, len] the joined sibling text    *)
(*   exam_matches the matches of the "(минимальный балл: N)" pattern:      *)
(*                [subj, score], subj being the set of EXAM_NAMES keys     *)
(*                the lowercased subject text contains                     *)
(*   anchors      the <a href> elements: [href, text]                      *)

Num(n) == [kind |-> "num", val |-> n, word |-> ""]

Word(w) == [kind |-> "word", val |-> 0, word |-> w]

\* the words of the model's pages that start with / contain each literal
StartsWithBudget == {"byudzhetnyh"}

StartsWithPaid == {"platnyh"}

\* года? | лет
StartsWithYears == {"god", "goda", "godu", "let"}

ContainsForm == [f \in {"ochno-zaochnaya", "zaochnaya", "ochnaya"} |->
                   CASE f = "ochno-zaochnaya" -> {"ochno-zaochnaya"}
                     [] f = "zaochnaya" -> {"ochno-zaochnaya", "zaochnaya"}
                     [] f = "ochnaya" -> {"ochno-zaochnaya", "zaochnaya", "ochnaya"}]

\* re.search(r'(\d+)\s*<marker>', text): the first number directly before a word
\* that starts with the marker; NoneInt when there is no match
SearchNumber(text, markers) ==
    LET hits == {i \in 1..(Len(text) - 1) :
                    text[i].kind = "num" /\ text[i + 1].kind = "word"
                    /\ text[i + 1].word \in markers}
    IN IF hits = {} THEN NoneInt
       ELSE text[CHOOSE i \in hits : \A j \in hits : i <= j].val

HasWord(text, ws) == \E i \in 1..Len(text) : text[i].kind = "word" /\ text[i].word \in ws

HasPhrase(text, ph) ==
    \E i \in 0..(Len(text) - Len(ph)) :
        \A k \in 1..Len(ph) : text[i + k].kind = "word" /\ text[i + k].word = ph[k]

\* line 165
format_duration(y) ==
    <<y, IF y = 1 THEN "god" ELSE IF 2 <= y /\ y <= 4 THEN "goda" ELSE "let">>

\* lines 162-165
extract_duration(text) ==
    LET y == SearchNumber(text, StartsWithYears)
    IN IF y = NoneInt THEN <<>> ELSE format_duration(y)

\* lines 167-170
extract_form(text) ==
    IF HasWord(text, ContainsForm["ochno-zaochnaya"]) THEN "ochno-zaochnaya"
    ELSE IF HasWord(text, ContainsForm["zaochnaya"]) THEN "zaochnaya"
    ELSE IF HasWord(text, ContainsForm["ochnaya"]) THEN "ochnaya"
    ELSE ""

\* lines 172-177
extract_language(text) ==
    IF HasWord(text, {"RUS+ENG"})
       \/ (HasWord(text, {"russkom"}) /\ HasWord(text, {"anglijskom"}))
    THEN "RUS+ENG"
    ELSE IF HasWord(text, {"RUS+ENG", "ENG"})
            \/ HasPhrase(text, <<"polnostyu", "na", "anglijskom">>)
    THEN "ENG"
    ELSE "RUS"

MinDescriptionLen == 100

\* lines 179-186
extract_description(pg) ==
    LET hits == {i \in 1..Len(pg.h1sibs) :
                    pg.h1sibs[i].tag \in {"p", "div"}
                    /\ pg.h1sibs[i].len > MinDescriptionLen}
    IN IF ~pg.h1 \/ hits = {} THEN ""
       ELSE pg.h1sibs[CHOOSE i \in hits : \A j \in hits : i <= j].text

----------------------------------------------------------------------------
(* parse_page: the section classifier (program_parser.py:131-137, 188-208) *)

SECTION_PATTERNS ==
    << <<"what_to_study", {"chto ya budu izuchat", "izuchat", "o programme",
                           "kogo i zachem", "vo vremya obucheniya",
                           "process obucheniya", "uchebnyj plan"}>>,
       <<"advantages", {"preimushchestva", "osobennosti", "pochemu stoit"}>>,
       <<"career", {"perspektivy", "karjer", "posle obucheniya", "trudoustrojstvo"}>>,
       <<"admission_info", {"postuplen", "nuzhno znat", "kak postupit",
                            "vstupiteln", "ege"}>> >>

\* line 190
DENYLIST == {"novosti", "partner", "katalog"}

MinSectionLen == 50

\* lines 190-191 and 202-203: the heading is not skipped
Survives(h2) == h2.title \cap DENYLIST = {} /\ h2.content.len >= MinSectionLen

\* any(pat in title for pat in patterns) for lexicon k
MatchesLexicon(h2, k) == h2.title \cap SECTION_PATTERNS[k][2] # {}

\* a classifier that assigns the first matching lexicon's field even when it is
\* already filled
section_target_overwrite(p, h2) ==
    LET cand == {k \in 1..Len(SECTION_PATTERNS) : MatchesLexicon(h2, k)}
    IN IF cand = {} THEN 0 ELSE CHOOSE k \in cand : \A j \in cand : k <= j

\* lines 205-208: the lexicon whose field the heading is assigned to, 0 if none
section_target(p, h2) ==
    LET cand == {k \in 1..Len(SECTION_PATTERNS) :
                    ~Truthy(p, SECTION_PATTERNS[k][1]) /\ MatchesLexicon(h2, k)}
    IN IF cand = {} THEN 0 ELSE CHOOSE k \in cand : \A j \in cand : k <= j

RECURSIVE classify_sections(_, _, _)
\* lines 188-208 from heading i on; st is [p, sets], sets being the setattr calls
\* made so far as <<field, index of the heading>>
classify_sections(st, h2s, i) ==
    IF i > Len(h2s) THEN st
    ELSE LET k == IF Survives(h2s[i]) THEN section_target(st.p, h2s[i]) ELSE 0
         IN classify_sections(
                IF k = 0 THEN st
                ELSE [p    |-> [st.p EXCEPT ![SECTION_PATTERNS[k][1]] = h2s[i].content.text],
                      sets |-> Append(st.sets, <<SECTION_PATTERNS[k][1], i>>)],
                h2s, i + 1)

----------------------------------------------------------------------------
(* parse_page: inline exams and specializations (lines 122-129, 210-228)   *)

EXAM_NAMES ==
    << <<"matematika", "Matematika">>, <<"russkij yazyk", "Russkij yazyk">>,
       <<"informatika", "Informatika">>,
       <<"kommunikacionnye tehnologii", "Informatika">>,
       <<"fizika", "Fizika">>, <<"himiya", "Himiya">>, <<"biologiya", "Biologiya">>,
       <<"istoriya", "Istoriya">>, <<"obshchestvoznanie", "Obshchestvoznanie">>,
       <<"literatura", "Literatura">>, <<"inostrannyj yazyk", "Inostrannyj yazyk">>,
       <<"anglijskij yazyk", "Inostrannyj yazyk">>, <<"geografiya", "Geografiya">> >>

Subjects(exams) == {exams[i].subject : i \in 1..Len(exams)}

\* lines 211-216 for one match
exam_step(exams, m) ==
    LET cand == {k \in 1..Len(EXAM_NAMES) : EXAM_NAMES[k][1] \in m.subj}
        v    == EXAM_NAMES[CHOOSE k \in cand : \A j \in cand : k <= j][2]
    IN IF cand = {} \/ v \in Subjects(exams) THEN exams
       ELSE Append(exams, [subject |-> v, min_score |-> m.score])

RECURSIVE inline_exams(_, _)
inline_exams(exams, ms) ==
    IF ms = <<>> THEN exams ELSE inline_exams(exam_step(exams, Head(ms)), Tail(ms))

QUOTES == {"<<", ">>", "\"", "'"}

RECURSIVE StripQuotes(_)
\* t.strip('«»"\'')
StripQuotes(t) ==
    IF t = <<>> THEN t
    ELSE IF Head(t) \in QUOTES THEN StripQuotes(Tail(t))
    ELSE IF t[Len(t)] \in QUOTES THEN StripQuotes(SubSeq(t, 1, Len(t) - 1))
    ELSE t

RECURSIVE LowerStr(_)
LowerStr(t) == IF t = <<>> THEN <<>> ELSE <<LowerChar(Head(t))>> \o LowerStr(Tail(t))

\* 'о специализациях' and 'общая информация', transliterated and shortened
SPEC_DENYLIST == { <<"o", " ", "s", "p", "e", "c">>, <<"o", "b", "s", "h", "c", "h">> }

MinLabelLen == 5

MaxLabelLen == 100

\* lines 224-228 for one anchor
spec_step(specs, a) ==
    LET t == StripQuotes(a.text)
    IN IF a.href \in {"/spec_", "/spec/"}
          /\ MinLabelLen < Len(t) /\ Len(t) < MaxLabelLen
          /\ LowerStr(t) \notin SPEC_DENYLIST
          /\ t \notin SeqToSet(specs)
       THEN Append(specs, t) ELSE specs

RECURSIVE specializations(_, _)
specializations(specs, as) ==
    IF as = <<>> THEN specs ELSE specializations(spec_step(specs, Head(as)), Tail(as))

----------------------------------------------------------------------------
(* parse_page (program_parser.py:139-230)                                  *)

\* lines 147-208: the record before the exams are read
extracted(pg, cfg, campus, admission_year) ==
    LET p0 == [Program EXCEPT
                  !.slug = cfg.slug, !.name = cfg.name,
                  !.faculty = cfg.faculty, !.codes = cfg.codes,
                  !.category = cfg.category, !.url = cfg.url,
                  !.campus = campus, !.admission_year = admission_year,
                  !.budget_places = SearchNumber(pg.text, StartsWithBudget),
                  !.paid_places = SearchNumber(pg.text, StartsWithPaid),
                  !.duration = extract_duration(pg.text),
                  !.form = extract_form(pg.text),
                  !.language = extract_language(pg.text),
                  !.description = extract_description(pg)]
    IN classify_sections([p |-> p0, sets |-> <<>>], pg.h2s, 1)

\* parse_page(html, cfg, campus, admission_year), the cache being as it stands
\* and src being what the exam source yields if it is asked: whether the call
\* raised, the cache afterwards, whether the source was fetched, the record
\* returned and the sections' setattr calls
parse_page(pg, cfg, campus, admission_year, cache, src) ==
    LET st     == extracted(pg, cfg, campus, admission_year)
        inline == inline_exams(<<>>, pg.exam_matches)
        lm     == load_minkrit(cache, src)
        mk     == match_exams(st.p.name, lm.cache.map)
        done(exams) ==
            validate_program([st.p EXCEPT
                !.exams = exams,
                !.specializations = specializations(<<>>, pg.anchors)])
    IN IF inline # <<>>
       THEN [raised |-> FALSE, cache |-> cache, fetched |-> 0,
             rec |-> done(inline), sets |-> st.sets]
       ELSE IF lm.raised
       THEN [raised |-> TRUE, cache |-> lm.cache, fetched |-> lm.fetched,
             rec |-> Program, sets |-> st.sets]
       ELSE [raised |-> FALSE, cache |-> lm.cache, fetched |-> lm.fetched,
             rec |-> done(IF mk.some /\ mk.exams # <<>> THEN mk.exams ELSE <<>>),
             sets |-> st.sets]

----------------------------------------------------------------------------
(* create_manifest (program_parser.py:232-266) and run.py's stat           *)

all_fields == <<"budget_places", "paid_places", "duration", "form", "language",
                "exams", "description", "what_to_study", "advantages", "career",
                "admission_info", "specializations">>

WithStatus(rs, st) == SelectSeq(rs, LAMBDA r : r.status = st)

TruthyCount(rs, f) == Cardinality({i \in 1..Len(rs) : Truthy(rs[i], f)})

\* a percentage cut to its first decimal instead of rounded to it
Percent_truncated(count, total) == (1000 * count) \div total

\* round(100 * count / total, 1) in tenths of a percent, for total > 0: the nearest
\* tenth, an exact tie going to the even tenth
Percent(count, total) ==
    LET q == (1000 * count) \div total
        r == (1000 * count) % total
    IN IF 2 * r > total \/ (2 * r = total /\ q % 2 = 1) THEN q + 1 ELSE q

\* lines 242-244 for one field; the division raises ZeroDivisionError on an
\* empty batch
coverage(rs, f) ==
    [count |-> TruthyCount(rs, f), total |-> Len(rs),
     percent |-> Percent(TruthyCount(rs, f), Len(rs))]

Triage(rs, key) == [i \in 1..Len(rs) |-> [slug |-> rs[i].slug, list |-> rs[i][key]]]

\* create_manifest(results, ...): whether it raised, and the manifest
create_manifest(rs) ==
    IF Len(rs) = 0
    THEN [raised |-> TRUE, statistics |-> [total |-> 0, success |-> 0,
                                           partial |-> 0, failed |-> 0],
          field_coverage |-> <<>>, failed_programs |-> <<>>,
          partial_programs |-> <<>>]
    ELSE [raised |-> FALSE,
          statistics |-> [total |-> Len(rs),
                          success |-> Len(WithStatus(rs, "success")),
                          partial |-> Len(WithStatus(rs, "partial")),
                          failed |-> Len(WithStatus(rs, "failed"))],
          field_coverage |-> [k \in 1..Len(all_fields) |-> coverage(rs, all_fields[k])],
          failed_programs |-> Triage(WithStatus(rs, "failed"), "errors"),
          partial_programs |-> Triage(WithStatus(rs, "partial"), "warnings")]

\* run.py lines 22-24: stat(field) as <<count, n, percent>>; 100*count//n raises
\* ZeroDivisionError when n = 0
stat(rs, f) ==
    IF Len(rs) = 0 THEN <<"ZeroDivisionError">>
    ELSE <<TruthyCount(rs, f), Len(rs), (100 * TruthyCount(rs, f)) \div Len(rs)>>

----------------------------------------------------------------------------
(* Inputs                                                                  *)

EmptyConfig == [slug |-> "", name |-> <<>>, faculty |-> "", codes |-> <<>>,
                category |-> "", url |-> ""]

EmptyPage == [text |-> <<>>, h1 |-> FALSE, h1sibs |-> <<>>, h2s |-> <<>>,
              exam_matches |-> <<>>, anchors |-> <<>>]

NoManifest == [raised |-> FALSE, statistics |-> [total |-> 0, success |-> 0,
                                                 partial |-> 0, failed |-> 0],
               field_coverage |-> <<>>, failed_programs |-> <<>>,
               partial_programs |-> <<>>, download_failed |-> <<>>]

NoPage == page = EmptyPage /\ config = EmptyConfig /\ assigned = <<>>

NoMatch == query = <<>> /\ ret = NoExams /\ calls = 0

NoCache == minkrit_cache = Unbuilt /\ fetches = 0

NoBatch == /\ programs = <<>> /\ idx = 0 /\ results = <<>>
           /\ download_failed = <<>> /\ manifest = NoManifest /\ report = <<>>

NoWorkers == workers = <<>>

Math == <<"M", "a", "t", "h">>

\* the records validate_program is given: every field empty, falsy or filled
ValidateInputs ==
    {[Program EXCEPT !.name = n, !.faculty = f, !.url = u, !.duration = d,
                     !.form = fo, !.language = l, !.budget_places = b,
                     !.exams = e, !.description = de] :
        n \in {<<>>, Math}, f \in {"", "FKN"}, u \in {"", "u1"},
        d \in {<<>>, format_duration(4)}, fo \in {"", "ochnaya"},
        l \in {"", "RUS"}, b \in {NoneInt, 0, 25},
        e \in {<<>>, << [subject |-> "Matematika", min_score |-> 60] >>},
        de \in {"", "d1"}}

----------------------------------------------------------------------------
(* SpecValidate: validate_program on every record                          *)

InitValidate ==
    /\ pc = "start" /\ rec \in ValidateInputs
    /\ NoPage /\ NoMatch /\ NoCache /\ NoBatch /\ NoWorkers

Validate ==
    /\ pc = "start"
    /\ rec' = validate_program(rec)
    /\ pc' = "validated"
    /\ UNCHANGED <<pageVars, matchVars, cacheVars, batchVars, workers>>

NextValidate == Validate

SpecValidate == InitValidate /\ [][NextValidate]_vars

FalsyRequired(r) ==
    {f \in {"faculty", "url", "form", "language"} : r[f] = ""}
    \cup {f \in {"name", "duration"} : r[f] = <<>>}

FalsyImportant(r) ==
    {f \in {"budget_places"} : r[f] \in {NoneInt, 0}}
    \cup {f \in {"exams"} : r[f] = <<>>}
    \cup {f \in {"description"} : r[f] = ""}

Occurrences(s, x) == Cardinality({i \in 1..Len(s) : s[i] = x})

\* C1: after validate_program, status is failed iff a required field is falsy;
\* with no required field falsy it is partial iff an important field is falsy and
\* success otherwise; errors holds exactly one missing_required tag per falsy
\* required field and warnings exactly one missing_important tag per falsy
\* important field, and nothing else.
C1_StatusFromPresence ==
    pc = "validated" =>
        /\ (rec.status = "failed") <=> (FalsyRequired(rec) # {})
        /\ FalsyRequired(rec) = {} =>
              /\ (rec.status = "partial") <=> (FalsyImportant(rec) # {})
              /\ FalsyImportant(rec) = {} => rec.status = "success"
        /\ \A f \in SeqToSet(REQUIRED_FIELDS) :
              Occurrences(rec.errors, <<"missing_required", f>>)
                  = IF f \in FalsyRequired(rec) THEN 1 ELSE 0
        /\ Len(rec.errors) = Cardinality(FalsyRequired(rec))
        /\ \A f \in SeqToSet(IMPORTANT_FIELDS) :
              Occurrences(rec.warnings, <<"missing_important", f>>)
                  = IF f \in FalsyImportant(rec) THEN 1 ELSE 0
        /\ Len(rec.warnings) = Cardinality(FalsyImportant(rec))

\* a validated record whose only missing required field is language and whose
\* budget_places is the falsy 0
C1_Witness ==
    /\ pc = "validated" /\ rec.status = "failed"
    /\ rec.errors = << <<"missing_required", "language">> >>
    /\ rec.budget_places = 0
    /\ rec.warnings = << <<"missing_important", "budget_places">> >>

----------------------------------------------------------------------------
(* SpecMatch: a process calling match_exams again and again; a caller that *)
(* catches the exception of one call goes on to the next                   *)

MathData == <<"m", "a", "t", "h", " ", "d", "a", "t", "a">>

MathOnline == <<"M", "a", "t", "h", " ", "(", "o", "n", "l", ")">>

DataMath == <<"d", "a", "t", "a", " ", "m", "a", "t", "h">>

Econ == <<"e", "c", "o", "n">>

MatData == <<"m", "a", "t", " ", "d", "a", "t", "a">>

MatAth == <<"m", "a", "t", ".", " ", "a", "t", "h", ".">>

\* the name cells of the source's rows
RowNames == {Math, MathData, MathOnline}

RowSubjects == {"Matematika", "Fizika"}

\* a score cell int() accepts, and one it rejects (ValueError)
GoodScore == [ok |-> TRUE, val |-> 60]

BadScore == [ok |-> FALSE, val |-> 0]

\* rows of 5 cells, of 3 cells and of another number of cells
RowKinds ==
    {[n |-> 5, name |-> nm, subject |-> sb, score |-> GoodScore] :
        nm \in RowNames, sb \in RowSubjects}
    \cup {[n |-> 3, name |-> <<>>, subject |-> sb, score |-> GoodScore] :
        sb \in RowSubjects}
    \cup {[n |-> 5, name |-> Math, subject |-> "Matematika", score |-> BadScore],
          [n |-> 3, name |-> <<>>, subject |-> "Matematika", score |-> BadScore],
          [n |-> 1, name |-> <<>>, subject |-> "", score |-> BadScore]}

MaxRows == 2

MatchSources ==
    {NoContent, FewTables} \cup {Table(rows) : rows \in SeqsUpTo(RowKinds, MaxRows)}

MatchQueries == {Math, DataMath, Econ, MatData, MatAth, <<>>}

MaxCalls == 2

InitMatch ==
    /\ pc = "start" /\ rec = Program
    /\ NoPage /\ NoMatch /\ NoCache /\ NoBatch /\ NoWorkers

\* match_exams(q): load_minkrit (line 49), then the two loops
MatchExamsCall(q, sources) ==
    /\ calls < MaxCalls
    /\ \E src \in (IF minkrit_cache.built THEN {NoContent} ELSE sources) :
          LET lm == load_minkrit(minkrit_cache, src)
          IN /\ minkrit_cache' = lm.cache
             /\ fetches' = fetches + lm.fetched
             /\ IF lm.raised
                THEN pc' = "raised" /\ ret' = NoExams
                ELSE pc' = "returned" /\ ret' = match_exams(q, lm.cache.map)
    /\ query' = q
    /\ calls' = calls + 1
    /\ UNCHANGED <<rec, pageVars, batchVars, workers>>

NextMatch == \E q \in MatchQueries : MatchExamsCall(q, MatchSources)

SpecMatch == InitMatch /\ [][NextMatch]_vars

ExactKeys(d, q) == {i \in 1..Len(d) : normalize(d[i].name) = normalize(q)}

ContainmentKeys(d, q) ==
    {i \in 1..Len(d) : /\ normalize(d[i].name) # normalize(q)
                       /\ \/ In(normalize(q), normalize(d[i].name))
                          \/ In(normalize(d[i].name), normalize(q))}

\* C2: when one key of the directory equals the query after normalization and
\* another key matches it only by containment, match_exams returns the exam list
\* of the exactly matching key, whatever the order of the keys.
C2_ExactBeforeContainment ==
    (pc = "returned" /\ calls > 0
     /\ ExactKeys(minkrit_cache.map, query) # {}
     /\ ContainmentKeys(minkrit_cache.map, query) # {})
    => /\ ret.some
       /\ \E i \in ExactKeys(minkrit_cache.map, query) :
              ret.exams = minkrit_cache.map[i].exams

\* C4: the source is fetched at most once, and once a build has been attempted
\* the cache holds a mapping (the empty one after a failure), so no later call
\* builds again.
C4_BuildOnce ==
    /\ fetches <= 1
    /\ fetches >= 1 => minkrit_cache.built

\* the keys of d whose normalized form contains at least 2 of the tokens of q
\* that are longer than 3 characters, each token normalized
OverlapKeys(d, q) ==
    {i \in 1..Len(d) :
        Cardinality({t \in 1..Len(Split(q)) :
                        /\ Len(Split(q)[t]) > 3
                        /\ In(normalize(Split(q)[t]), normalize(d[i].name))}) >= 2}

\* C13: when no key of the directory matches the query exactly or by
\* containment, match_exams returns the exam list of the first key, in the
\* directory's order, whose normalized form contains at least 2 of the query's
\* whitespace-separated tokens longer than 3 characters (each normalized), and
\* nothing when there is no such key.
C13_TokenOverlapFallback ==
    (pc = "returned" /\ calls > 0
     /\ ExactKeys(minkrit_cache.map, query) = {}
     /\ ContainmentKeys(minkrit_cache.map, query) = {})
    => LET d == minkrit_cache.map
           keys == OverlapKeys(d, query)
       IN IF keys = {} THEN ret = NoExams
          ELSE ret = Exams(d[CHOOSE i \in keys : \A j \in keys : i <= j].exams)

\* the fallback decides between two keys with different exam lists that both
\* hold 2 long tokens of the query, and returns the list of the first
C13_Witness ==
    /\ pc = "returned" /\ calls > 0
    /\ ExactKeys(minkrit_cache.map, query) = {}
    /\ ContainmentKeys(minkrit_cache.map, query) = {}
    /\ OverlapKeys(minkrit_cache.map, query) = {1, 2}
    /\ minkrit_cache.map[1].exams # minkrit_cache.map[2].exams
    /\ ret = Exams(minkrit_cache.map[1].exams)

----------------------------------------------------------------------------
(* SpecPage: one parse_page call on every page of the input families       *)

BaseConfig == [slug |-> "math", name |-> Math, faculty |-> "FKN",
               codes |-> <<"01.03.02">>, category |-> "bak", url |-> "u1"]

\* a page every extractor finds its field on, exams included
BasePage ==
    [text |-> <<Num(25), Word("byudzhetnyh"), Num(4), Word("goda"), Word("ochnaya")>>,
     h1 |-> TRUE, h1sibs |-> << [tag |-> "p", text |-> "d1", len |-> 150] >>,
     h2s |-> <<>>,
     exam_matches |-> << [subj |-> {"matematika"}, score |-> 60] >>,
     anchors |-> <<>>]

\* headings: titles holding career, admission, curriculum, advantages and denylist
\* phrases, with content of at least 50 characters or less
HeadingShapes ==
    {[title |-> ti, len |-> 60] :
        ti \in {{"karjer"}, {"perspektivy"}, {"karjer", "postuplen"},
                {"izuchat", "karjer"}, {"novosti", "karjer"}, {"preimushchestva"}}}
    \cup {[title |-> {"karjer"}, len |-> 30], [title |-> {}, len |-> 60]}

\* the content under the i-th heading
ContentText == <<"c1", "c2", "c3", "c4", "c5">>

MaxHeadings == 3

SectionPages ==
    {[BasePage EXCEPT !.h2s =
         [i \in 1..Len(f) |-> [title |-> f[i].title,
                               content |-> [text |-> ContentText[i], len |-> f[i].len]]]] :
        f \in SeqsUpTo(HeadingShapes, MaxHeadings)}

YearTokens == {Num(1), Num(3), Num(5), Num(21),
               Word("god"), Word("goda"), Word("let"), Word("mest")}

MaxTokens == 3

DurationPages ==
    {[BasePage EXCEPT !.text = tx] : tx \in SeqsUpTo(YearTokens, MaxTokens)}

MarkerWords == {"byudzhetnyh", "platnyh", "ochnaya", "zaochnaya", "ochno-zaochnaya",
                "RUS+ENG", "ENG", "russkom", "anglijskom"}

WordPages ==
    {[BasePage EXCEPT !.text = tx] :
        tx \in {<<Num(0), Word(w)>> : w \in MarkerWords}
               \cup {<<Word(v), Word(w)>> : v, w \in MarkerWords}
               \cup {<<Word("polnostyu"), Word("na"), Word("anglijskom")>>}}

DescriptionPages ==
    {[BasePage EXCEPT !.h1 = h, !.h1sibs = sibs] :
        h \in BOOLEAN,
        sibs \in SeqsUpTo({[tag |-> "ul", text |-> "d0", len |-> 150],
                           [tag |-> "p", text |-> "d1", len |-> 100],
                           [tag |-> "div", text |-> "d2", len |-> 101],
                           [tag |-> "p", text |-> "d3", len |-> 150]}, 2)}

ExamMatches ==
    {[subj |-> sj, score |-> sc] :
        sj \in {{"matematika"}, {"informatika", "kommunikacionnye tehnologii"},
                {"anglijskij yazyk"}, {"inostrannyj yazyk"}},
        sc \in {60, 70}}
    \cup {[subj |-> {}, score |-> 60]}

MaxMatches == 2

ExamPages ==
    {[BasePage EXCEPT !.exam_matches = ms] : ms \in SeqsUpTo(ExamMatches, MaxMatches)}

AnchorText1 == <<"<<", "D", "a", "t", "a", " ", "A", "I", ">>">>

AnchorTexts == {AnchorText1, <<"D", "a", "t", "a", " ", "A", "I">>, <<"M", "L", " ", "o", "p", "s">>, <<"A", "I">>, <<"O", " ", "s", "p", "e", "c">>}

AnchorKinds ==
    {[href |-> "/spec_", text |-> tx] : tx \in AnchorTexts}
    \cup {[href |-> "/spec/", text |-> AnchorText1], [href |-> "/other", text |-> AnchorText1]}

MaxAnchors == 2

AnchorPages ==
    {[BasePage EXCEPT !.anchors = as] : as \in SeqsUpTo(AnchorKinds, MaxAnchors)}

PageInputs ==
    SectionPages \cup DurationPages \cup WordPages \cup DescriptionPages
    \cup ExamPages \cup AnchorPages

\* what the exam source can yield when parse_page asks it: rows that build a
\* directory, repeat a subject, or hold a score cell that is no integer
PageRowKinds ==
    {[n |-> 5, name |-> Math, subject |-> "Matematika", score |-> GoodScore],
     [n |-> 5, name |-> MathData, subject |-> "Fizika", score |-> GoodScore],
     [n |-> 3, name |-> <<>>, subject |-> "Matematika", score |-> GoodScore],
     [n |-> 3, name |-> <<>>, subject |-> "Matematika", score |-> BadScore]}

PageSources ==
    {NoContent, FewTables} \cup {Table(rows) : rows \in SeqsUpTo(PageRowKinds, MaxRows)}

PageConfigs == {BaseConfig, [BaseConfig EXCEPT !.name = DataMath], EmptyConfig}

\* every page with the base configuration, and the pages whose exams come from
\* the directory with every configuration
PageCalls ==
    (PageInputs \X {BaseConfig})
    \cup ({pg \in ExamPages : inline_exams(<<>>, pg.exam_matches) = <<>>} \X PageConfigs)

InitPage ==
    /\ pc = "start" /\ rec = Program
    /\ \E call \in PageCalls : page = call[1] /\ config = call[2]
    /\ assigned = <<>>
    /\ NoMatch /\ NoCache /\ NoBatch /\ NoWorkers

\* whether parse_page(pg, ...) reaches load_minkrit's download
AsksSource(pg, cache) == inline_exams(<<>>, pg.exam_matches) = <<>> /\ ~cache.built

ParsePageCall(sources) ==
    /\ pc = "start"
    /\ \E src \in (IF AsksSource(page, minkrit_cache) THEN sources ELSE {NoContent}) :
          LET r == parse_page(page, config, "moscow", 2025, minkrit_cache, src)
          IN /\ minkrit_cache' = r.cache
             /\ fetches' = fetches + r.fetched
             /\ IF r.raised
                THEN pc' = "raised" /\ UNCHANGED <<rec, assigned>>
                ELSE pc' = "parsed" /\ rec' = r.rec /\ assigned' = r.sets
    /\ UNCHANGED <<page, config, matchVars, batchVars, workers>>

NextPage == ParsePageCall(PageSources)

SpecPage == InitPage /\ [][NextPage]_vars

\* C5: whatever the exam source yields, parse_page (and the match_exams call in
\* it) returns normally: no call ends in an exception.
C5_NoRaiseReachesCaller == pc # "raised"

ContentFields == {"what_to_study", "advantages", "career", "admission_info"}

CareerLexicon == CHOOSE k \in 1..Len(SECTION_PATTERNS) : SECTION_PATTERNS[k][1] = "career"

\* the surviving headings of the page that match the career lexicon
CareerHeadings ==
    {i \in 1..Len(page.h2s) :
        Survives(page.h2s[i]) /\ MatchesLexicon(page.h2s[i], CareerLexicon)}

OnlyCareer(i) ==
    \A k \in 1..Len(SECTION_PATTERNS) :
        MatchesLexicon(page.h2s[i], k) => k = CareerLexicon

\* the first of them, 0 when there is none
FirstCareerHeading ==
    IF CareerHeadings = {} THEN 0
    ELSE CHOOSE i \in CareerHeadings : \A j \in CareerHeadings : i <= j

AssignedOnce ==
    \A f \in ContentFields :
        Cardinality({n \in 1..Len(assigned) : assigned[n][1] = f}) <= 1

InNoField(i) == \A f \in ContentFields : rec[f] # page.h2s[i].content.text

\* C8 as stated: every content field is assigned at most once, and of two
\* surviving headings that match the career lexicon only the first populates
\* career; the content of the second is written to no field.
C8_FirstCareerHeadingWins ==
    pc = "parsed" =>
        /\ AssignedOnce
        /\ \A j \in CareerHeadings \ {FirstCareerHeading} :
              /\ rec.career = page.h2s[FirstCareerHeading].content.text
              /\ InNoField(j)

\* C8 amended: every content field is assigned at most once, and when the first
\* surviving heading that matches the career lexicon and a later one both match
\* no other lexicon, the first populates career and the content of the later one
\* is written to no field.
C8_FirstCareerOnlyHeadingWins ==
    pc = "parsed" =>
        /\ AssignedOnce
        /\ \A j \in CareerHeadings \ {FirstCareerHeading} :
              (OnlyCareer(FirstCareerHeading) /\ OnlyCareer(j)) =>
                  /\ rec.career = page.h2s[FirstCareerHeading].content.text
                  /\ InNoField(j)

\* two surviving career-only headings were classified, and a third heading was
\* assigned to another field
C8_Witness ==
    /\ pc = "parsed"
    /\ Cardinality({i \in CareerHeadings : OnlyCareer(i)}) >= 2
    /\ OnlyCareer(FirstCareerHeading)
    /\ rec.career = page.h2s[FirstCareerHeading].content.text
    /\ Len(assigned) = 2

\* the first number directly before a year word, and that word
YearMatches ==
    {i \in 1..(Len(page.text) - 1) :
        /\ page.text[i].kind = "num" /\ page.text[i + 1].kind = "word"
        /\ page.text[i + 1].word \in {"god", "goda", "let"}}

FirstYearMatch == CHOOSE i \in YearMatches : \A j \in YearMatches : i <= j

\* C9: the duration keeps the noun form of the source for "1 god", "3 goda",
\* "5 let" and "21 god": the form is chosen per numeral, 21 taking the singular.
C9_DurationAgreement ==
    (pc = "parsed" /\ YearMatches # {}) =>
        LET y == page.text[FirstYearMatch].val
            w == page.text[FirstYearMatch + 1].word
        IN <<y, w>> \in {<<1, "god">>, <<3, "goda">>, <<5, "let">>, <<21, "god">>}
           => rec.duration = <<y, w>>

NoDuplicates(s) == \A i, j \in 1..Len(s) : s[i] = s[j] => i = j

\* C10: the exams of a returned record hold no two entries with the same subject
\* and its specializations no label twice.
C10_NoDuplicateSubjectOrLabel ==
    pc = "parsed" =>
        /\ NoDuplicates([i \in 1..Len(rec.exams) |-> rec.exams[i].subject])
        /\ NoDuplicates(rec.specializations)

----------------------------------------------------------------------------
(* Spec: a run of run.py: the parse_all loop (program_parser.py:284-306),  *)
(* create_manifest (line 311) and the report of run.py (lines 19-43)       *)

MaxPrograms == 4

Slugs == <<"p1", "p2", "p3", "p4", "p5", "p6">>

\* the i-th configuration of the file: every third one has no name
ConfigAt(i) ==
    [BaseConfig EXCEPT !.slug = Slugs[i],
                       !.name = IF i % 3 = 0 THEN <<>> ELSE IF i % 3 = 1 THEN Math
                                ELSE MathData]

\* programs[:limit] for every limit
ProgramLists == {[i \in 1..n |-> ConfigAt(i)] : n \in 0..MaxPrograms}

\* what download(url) can return for a program page, None apart: a page with
\* every field, one whose exams must come from the directory, one without text
PipelinePages ==
    {BasePage,
     [BasePage EXCEPT !.exam_matches = <<>>,
                      !.text = <<Num(4), Word("goda"), Word("ochnaya")>>],
     [BasePage EXCEPT !.text = <<>>]}

PipelineSources ==
    {NoContent, FewTables,
     Table(<< [n |-> 5, name |-> Math, subject |-> "Matematika", score |-> GoodScore] >>),
     Table(<< [n |-> 5, name |-> Math, subject |-> "Matematika", score |-> BadScore] >>)}

Init ==
    /\ pc = "loop" /\ rec = Program
    /\ programs \in ProgramLists
    /\ idx = 0 /\ results = <<>> /\ download_failed = <<>>
    /\ manifest = NoManifest /\ report = <<>>
    /\ NoPage /\ NoMatch /\ NoCache /\ NoWorkers

\* one iteration of the loop of lines 287-306 whose download returns None; idx
\* counts the configurations whose iteration has begun
ParseAllDownloadFailed ==
    /\ pc = "loop" /\ idx < Len(programs)
    /\ idx' = idx + 1
    /\ download_failed' = Append(download_failed, programs[idx + 1].slug)
    /\ UNCHANGED <<pc, rec, pageVars, matchVars, cacheVars, programs, results,
                   manifest, report, workers>>

\* one iteration whose download returns the page html: parse_page, and the record
\* appended; an exception of parse_page leaves parse_all
ParseAllParsed ==
    /\ pc = "loop" /\ idx < Len(programs)
    /\ idx' = idx + 1
    /\ \E html \in PipelinePages :
          \E src \in (IF AsksSource(html, minkrit_cache) THEN PipelineSources
                      ELSE {NoContent}) :
             LET r == parse_page(html, programs[idx + 1], "moscow", 2025,
                                 minkrit_cache, src)
             IN /\ minkrit_cache' = r.cache
                /\ fetches' = fetches + r.fetched
                /\ page' = html /\ config' = programs[idx + 1]
                /\ IF r.raised
                   THEN pc' = "ValueError" /\ UNCHANGED <<rec, assigned, results>>
                   ELSE /\ pc' = "loop" /\ rec' = r.rec /\ assigned' = r.sets
                        /\ results' = Append(results, r.rec)
    /\ UNCHANGED <<matchVars, programs, download_failed, manifest, report, workers>>

\* lines 308-328: the manifest of the batch, and parse_all returns
ParseAllFinish ==
    /\ pc = "loop" /\ idx = Len(programs)
    /\ LET m == create_manifest(results)
       IN IF m.raised
          THEN pc' = "ZeroDivisionError" /\ UNCHANGED manifest
          ELSE /\ pc' = "returned"
               /\ manifest' = [raised |-> FALSE, statistics |-> m.statistics,
                               field_coverage |-> m.field_coverage,
                               failed_programs |-> m.failed_programs,
                               partial_programs |-> m.partial_programs,
                               download_failed |-> download_failed]
    /\ UNCHANGED <<rec, pageVars, matchVars, cacheVars, programs, idx, results,
                   download_failed, report, workers>>

\* run.py lines 19-43: stat(field) for every field printed
RunReport ==
    /\ pc = "returned"
    /\ LET lines == [k \in 1..Len(all_fields) |-> stat(results, all_fields[k])]
       IN IF \E k \in 1..Len(lines) : lines[k] = <<"ZeroDivisionError">>
          THEN pc' = "ZeroDivisionError" /\ UNCHANGED report
          ELSE pc' = "reported" /\ report' = lines
    /\ UNCHANGED <<rec, pageVars, matchVars, cacheVars, programs, idx, results,
                   download_failed, manifest, workers>>

Next == ParseAllDownloadFailed \/ ParseAllParsed \/ ParseAllFinish \/ RunReport

Spec == Init /\ [][Next]_vars

\* the loop is over and no record was produced
EmptyBatchDone == pc # "loop" /\ idx = Len(programs) /\ results = <<>>

\* C3: on an empty batch create_manifest returns a manifest with total 0 and a
\* coverage entry with count 0 and total 0 for each of the tracked fields, and
\* neither the aggregation nor the report raises a division fault.
C3_EmptyBatchManifest ==
    EmptyBatchDone =>
        /\ pc # "ZeroDivisionError"
        /\ manifest.statistics.total = 0
        /\ Len(manifest.field_coverage) = Len(all_fields)
        /\ \A k \in 1..Len(manifest.field_coverage) :
              manifest.field_coverage[k].count = 0 /\ manifest.field_coverage[k].total = 0

\* C6: every configuration whose iteration has begun is in exactly one of results
\* and download_failed, so their lengths add up to the number processed, and a
\* run that has left the loop has processed every configuration.
C6_FetchFailureNeverFatal ==
    /\ Len(results) + Len(download_failed) = idx
    /\ pc # "loop" => idx = Len(programs)

\* the records of the batch whose field f is truthy
TruthyRecords(f) ==
    {i \in 1..Len(results) :
        IF f \in {"budget_places", "paid_places"} THEN results[i][f] \notin {NoneInt, 0}
        ELSE IF f \in {"duration", "exams", "specializations"} THEN results[i][f] # <<>>
        ELSE results[i][f] # ""}

\* C11: in the manifest of a non-empty batch every tracked field has a coverage
\* entry whose count is the number of records with a truthy value, whose total is
\* the batch size and whose percent (held in tenths) is the tenth nearest to
\* 100 * count / total; count never exceeds total.
C11_FieldCoverage ==
    (pc \in {"returned", "reported"} /\ Len(results) > 0) =>
        /\ Len(manifest.field_coverage) = Len(all_fields)
        /\ \A k \in 1..Len(all_fields) :
              LET c == manifest.field_coverage[k]
              IN /\ c.count = Cardinality(TruthyRecords(all_fields[k]))
                 /\ c.total = Len(results)
                 /\ c.count <= c.total
                 /\ 2 * c.percent * c.total <= 2000 * c.count + c.total
                 /\ 2000 * c.count <= 2 * c.percent * c.total + c.total

\* the manifest of a batch of 4 records, 2 of them with budget_places: count 2,
\* total 4, percent 50.0; and one of a batch of 3 with 2 of them: 66.7
C11_Witness ==
    /\ pc = "returned"
    /\ \/ manifest.field_coverage[1] = [count |-> 2, total |-> 4, percent |-> 500]
       \/ manifest.field_coverage[1] = [count |-> 2, total |-> 3, percent |-> 667]
    /\ all_fields[1] = "budget_places"

\* the positions of the records of the batch with status st, and the n-th of them
StatusIdx(st) == {i \in 1..Len(results) : results[i].status = st}

NthOf(S, n) == CHOOSE i \in S : Cardinality({j \in S : j <= i}) = n

\* list is the triage list of the records with status st: one entry per such
\* record, in batch order, holding its slug and its errors or warnings (key)
TriageOf(list, st, key) ==
    /\ Len(list) = Cardinality(StatusIdx(st))
    /\ \A n \in 1..Len(list) :
          list[n] = [slug |-> results[NthOf(StatusIdx(st), n)].slug,
                     list |-> results[NthOf(StatusIdx(st), n)][key]]

\* the manifest partitions the batch and lists its failed and partial records
ManifestPartitions ==
    /\ manifest.statistics.total = Len(results)
    /\ manifest.statistics.success + manifest.statistics.partial
           + manifest.statistics.failed = manifest.statistics.total
    /\ manifest.statistics.success = Cardinality(StatusIdx("success"))
    /\ manifest.statistics.partial = Cardinality(StatusIdx("partial"))
    /\ manifest.statistics.failed = Cardinality(StatusIdx("failed"))
    /\ TriageOf(manifest.failed_programs, "failed", "errors")
    /\ TriageOf(manifest.partial_programs, "partial", "warnings")

\* the loop of parse_all has gone through every configuration and
\* create_manifest has been called on the batch
ManifestCallDone == pc \in {"returned", "reported", "ZeroDivisionError"}

\* C12: for every batch of validated records, the empty one included,
\* create_manifest returns a manifest whose statistics satisfy success + partial
\* + failed = total = number of records, whose failed_programs lists exactly the
\* failed records (slug and errors) and whose partial_programs lists exactly the
\* partial records (slug and warnings), each in batch order.
C12_StatisticsPartition ==
    ManifestCallDone => (pc # "ZeroDivisionError" /\ ManifestPartitions)

\* the same for the batches that hold at least one record
NonEmptyBatchPartition ==
    (ManifestCallDone /\ Len(results) > 0) =>
        (pc # "ZeroDivisionError" /\ ManifestPartitions)

----------------------------------------------------------------------------
(* SpecWorkers: workers that call match_exams at the same time, as section *)
(* 5 of the design allows; a worker is suspended while download() waits    *)

NumWorkers == 2

WorkerSources ==
    PipelineSources
    \cup {Table(<< [n |-> 5, name |-> Math, subject |-> "Fizika", score |-> GoodScore] >>)}

InitWorkers ==
    /\ pc = "workers" /\ rec = Program
    /\ workers = [w \in 1..NumWorkers |-> [pc |-> "call", src |-> NoContent,
                                           seen |-> Unbuilt, ret |-> NoExams]]
    /\ NoPage /\ NoMatch /\ NoCache /\ NoBatch

\* lines 18-19: the cache is read; a worker that finds it built returns it
WorkerCheck(w) ==
    /\ workers[w].pc = "call"
    /\ workers' = [workers EXCEPT ![w] =
          IF minkrit_cache.built
          THEN [@ EXCEPT !.pc = "done", !.seen = minkrit_cache,
                         !.ret = match_exams(Math, minkrit_cache.map)]
          ELSE [@ EXCEPT !.pc = "download"]]
    /\ UNCHANGED <<pc, rec, pageVars, matchVars, cacheVars, batchVars>>

\* line 21: download(MINKRIT_URL) returns
WorkerDownload(w) ==
    /\ workers[w].pc = "download"
    /\ \E src \in WorkerSources :
          workers' = [workers EXCEPT ![w] = [@ EXCEPT !.pc = "build", !.src = src]]
    /\ fetches' = fetches + 1
    /\ UNCHANGED <<pc, rec, pageVars, matchVars, minkrit_cache, batchVars>>

\* lines 22-46 and 54-68: the mapping is built from what was downloaded and
\* stored, and the name is matched against it
WorkerBuild(w) ==
    /\ workers[w].pc = "build"
    /\ LET lm == load_minkrit(Unbuilt, workers[w].src)
       IN IF lm.raised
          THEN /\ workers' = [workers EXCEPT ![w] = [@ EXCEPT !.pc = "raised"]]
               /\ UNCHANGED minkrit_cache
          ELSE /\ minkrit_cache' = lm.cache
               /\ workers' = [workers EXCEPT ![w] =
                     [@ EXCEPT !.pc = "done", !.seen = lm.cache,
                               !.ret = match_exams(Math, lm.cache.map)]]
    /\ UNCHANGED <<pc, rec, pageVars, matchVars, fetches, batchVars>>

NextWorkers ==
    \E w \in 1..NumWorkers : WorkerCheck(w) \/ WorkerDownload(w) \/ WorkerBuild(w)

SpecWorkers == InitWorkers /\ [][NextWorkers]_vars

\* C7: workers that call match_exams while the directory is unbuilt fetch the
\* source once between them, and all of them obtain the same mapping.
C7_ExactlyOnceInit ==
    /\ fetches <= 1
    /\ \A v, w \in 1..NumWorkers :
          (workers[v].pc = "done" /\ workers[w].pc = "done")
              => workers[v].seen = workers[w].seen

====
